---- MODULE Spec2Model ----
(***************************************************************************)
(* Model of tools/buildgo/main.go: the stat cache, the freshness oracle    *)
(* (isOutdated), the executable locator (lookupInEnvPath) and the bounded  *)
(* task scheduler (runExe, semEnter/semLeave, wg) of the build driver.     *)
(*                                                                         *)
(* The specifications share the variables:                                 *)
(*   Spec        main() running build(): the submitting thread and the     *)
(*               goroutines started by runExe, interleaved step by step;   *)
(*   SpecOracle  isOutdated called on bounded files and timestamps;        *)
(*   SpecCache   fileExists, getModTime and isOutdated called while files  *)
(*               are written and deleted;                                  *)
(*   SpecLocator lookupInEnvPath called on bounded names and environments; *)
(*   SpecEnv     getEnv called for either platform, more than once;        *)
(*   SpecArgs    rc and cl called with bounded flag lists;                 *)
(*   SpecEnvMap  envToMap called on bounded lists of lines.                *)
(***************************************************************************)
EXTENDS Integers, Sequences, FiniteSets, TLC

\* ------------------------------------------------------------------ bounds

\* largest value runtime.NumCPU() takes in the model
MaxCPU == 2
\* number of entries of srcFiles that build() compiles in the model
NumFiles == 2
\* largest modification time a file has initially or is written with
MaxTime == 2
\* longest dependency list handed to isOutdated
MaxDeps == 2
\* most executions of one setup script by calls of getEnv
MaxRuns == 2
\* longest list of flags a caller hands to rc() or cl()
MaxFlags == 3
\* most lines of script output handed to envToMap
MaxLines == 3

VARIABLES
    n,               \* runtime.NumCPU(), the capacity of sem
    sem,             \* number of values buffered in the channel sem
    wg,              \* counter of the sync.WaitGroup wg
    pcMain,          \* position of the main goroutine
    job,             \* index of the file main is working on (0 is the .rc file)
    pc,              \* position of the goroutine started for each job
    exePath,         \* exePath local of runExeHelper, per goroutine
    procStatus,      \* outcome of cmd.CombinedOutput(), per goroutine
    proc,            \* the build process itself: running or its exit status
    env,             \* the environment build() got from getEnv
    cachedExePaths,  \* map[string]string
    createdDirs,     \* map[string]bool
    fileInfoCache,   \* map[string]os.FileInfo
    fs,              \* the file system: path -> [regular, mtime]
    now,             \* time.Now()
    scans,           \* number of calls of lookupInEnvPathUncached, per name
    last,            \* the last call made in the specifications of one function
    cachedVcInstallDir, \* the package variable of getVcInstallDir
    scriptRuns,      \* number of executions of each setup script
    mkdirCalls,      \* number of calls of os.MkdirAll, per directory
    outdatedRet,     \* what isOutdated returned to cl(), per job
    argv             \* cmd.Args of the process of each job

vars == <<n, sem, wg, pcMain, job, pc, exePath, procStatus, proc, env,
          cachedExePaths, createdDirs, fileInfoCache, fs, now, scans, last,
          cachedVcInstallDir, scriptRuns, mkdirCalls, outdatedRet, argv>>

schedVars == <<n, sem, wg, pcMain, job, pc, exePath, procStatus, proc, env>>

auxVars == <<cachedVcInstallDir, scriptRuns, mkdirCalls, outdatedRet, argv>>

\* ------------------------------------------------------------------- paths

\* A path is a record: directory components, base name, extension.
MkPath(dir, base, ext) == [dir |-> dir, base |-> base, ext |-> ext]

\* the empty string, as lookupInEnvPathUncached returns it
EmptyPath == MkPath(<<>>, "", "")

\* filepath.Join(dir, p)
pj(dir, p) == [p EXCEPT !.dir = <<dir>> \o @]

\* replaceExt(path, newExt)
replaceExt(path, newExt) == [path EXCEPT !.ext = newExt]

\* clOut(src, outDir): ${outDir}/${dir}/foo.obj
clOut(src, outDir) == replaceExt(pj(outDir, src), ".obj")

\* rcOut(src, outDir): ${outDir}/${dir}/foo.res
rcOut(src, outDir) == replaceExt(pj(outDir, src), ".res")

\* getOutDir(Platform32Bit, ConfigRelease)
getOutDir == "rel"

\* the first entries of srcFiles in build()
AllSrcFiles == <<"AppPrefs", "DisplayModel", "CrashHandler", "Favorites",
                 "TextSearch", "SumatraAbout">>
srcFiles == SubSeq(AllSrcFiles, 1, NumFiles)

Jobs == 0..NumFiles

\* source of job j: src/SumatraPDF.rc for the resource, src/<file>.cpp after
srcOf(j) ==
    IF j = 0 THEN pj("src", MkPath(<<>>, "SumatraPDF", ".rc"))
             ELSE pj("src", MkPath(<<>>, srcFiles[j], ".cpp"))

dstOf(j) ==
    IF j = 0 THEN rcOut(srcOf(j), getOutDir) ELSE clOut(srcOf(j), getOutDir)

\* exeName of job j as rc() and cl() pass it to runExe
exeOf(j) == IF j = 0 THEN "rc.exe" ELSE "cl.exe"

ExeNames == {"rc.exe", "cl.exe"}

\* filepath.Join(dir, exeName); an executable's name is kept whole
exeIn(dir, exeName) == pj(dir, MkPath(<<>>, exeName, ""))

\* filepath.Dir(path)
dirOf(path) == MkPath(path.dir, "", "")

\* ------------------------------------------------------------ file system

FileInfo(regular, mtime) == [regular |-> regular, mtime |-> mtime]

\* os.Stat(path) succeeds
statOk(fsys, path) == path \in DOMAIN fsys

\* alwaysRebuild is false and never assigned
alwaysRebuild == FALSE

\* fileExists(path): the value returned
fileExists(cache, fsys, path) ==
    IF path \in DOMAIN cache THEN cache[path].regular
    ELSE IF statOk(fsys, path) THEN fsys[path].regular
    ELSE FALSE

\* statCached that also remembers a failed os.Stat, as "not a regular file"
statCachedRemembersMissing(cache, fsys, path) ==
    IF path \in DOMAIN cache THEN cache
    ELSE IF statOk(fsys, path) THEN cache @@ (path :> fsys[path])
    ELSE cache @@ (path :> FileInfo(FALSE, 0))

\* statCached that stores what os.Stat finds over the entry it holds
statCachedRefreshed(cache, fsys, path) ==
    IF ~statOk(fsys, path) THEN cache
    ELSE [q \in DOMAIN cache \cup {path} |->
            IF q = path THEN fsys[path] ELSE cache[q]]

\* fileExists / getModTime: fileInfoCache after the call
statCached(cache, fsys, path) ==
    IF path \in DOMAIN cache \/ ~statOk(fsys, path) THEN cache
    ELSE cache @@ (path :> fsys[path])

\* getModTime(path, def): the value returned
getModTime(cache, fsys, path, def) ==
    IF path \in DOMAIN cache THEN cache[path].mtime
    ELSE IF statOk(fsys, path) THEN fsys[path].mtime
    ELSE def

\* srcTime.Sub(pathTime) > 0 in the loop over deps
depOutdated(srcTime, pathTime) == srcTime - pathTime > 0

\* the loop over deps of isOutdated: [ret, cache]
RECURSIVE depsLoop(_, _, _, _, _)
depsLoop(cache, fsys, srcTime, deps, t) ==
    IF deps = <<>> THEN [ret |-> FALSE, cache |-> cache]
    ELSE IF depOutdated(srcTime, getModTime(cache, fsys, Head(deps), t))
         THEN [ret |-> TRUE, cache |-> statCached(cache, fsys, Head(deps))]
         ELSE depsLoop(statCached(cache, fsys, Head(deps)), fsys, srcTime,
                       Tail(deps), t)

\* isOutdated(src, dst, deps): [ret, cache], t being time.Now()
isOutdated(cache, fsys, src, dst, deps, t) ==
    IF alwaysRebuild THEN [ret |-> TRUE, cache |-> cache]
    ELSE IF ~fileExists(cache, fsys, dst)
         THEN [ret |-> TRUE, cache |-> statCached(cache, fsys, dst)]
    ELSE LET c1 == statCached(cache, fsys, dst)
             dstTime == getModTime(c1, fsys, dst, t)
             srcTime == getModTime(c1, fsys, src, t)
             c2 == statCached(c1, fsys, src)
         IN  IF srcTime - dstTime > 0 THEN [ret |-> TRUE, cache |-> c2]
             ELSE depsLoop(c2, fsys, srcTime, deps, t)

\* ------------------------------------------------------ executable locator

\* An environment is a sequence of variables; Val holds the pieces of the
\* value between ';' (what strings.Split(parts[1], ";") yields).
EnvVar(name, val) == [Name |-> name, Val |-> val]

\* strings.ToLower on the variable names of the model
ToLower(s) ==
    CASE s \in {"PATH", "Path", "path"} -> "path"
      [] s \in {"INCLUDE", "Include", "include"} -> "include"
      [] OTHER -> s

\* what vcvarsall.bat x86 / x86_amd64 can leave behind
Env32 == <<EnvVar("INCLUDE", <<"inc">>), EnvVar("Path", <<"vc32", "sdk">>)>>
Env64 == <<EnvVar("INCLUDE", <<"inc">>), EnvVar("Path", <<"vc64", "sdk">>)>>
EnvOneDir == <<EnvVar("PATH", <<"sdk">>)>>
EnvNoPath == <<EnvVar("INCLUDE", <<"inc">>)>>

Envs == {Env32, Env64, EnvOneDir, EnvNoPath}

ExeDirs == {"vc32", "vc64", "sdk"}

\* the loop over the directories of the search path: the first directory that
\* holds exeName as a regular file, fileInfoCache being filled on the way
RECURSIVE scanDirs(_, _, _, _)
scanDirs(cache, fsys, dirs, exeName) ==
    IF dirs = <<>> THEN [found |-> FALSE, path |-> EmptyPath, cache |-> cache]
    ELSE LET path == exeIn(Head(dirs), exeName)
         IN  IF fileExists(cache, fsys, path)
             THEN [found |-> TRUE, path |-> path,
                   cache |-> statCached(cache, fsys, path)]
             ELSE scanDirs(statCached(cache, fsys, path), fsys, Tail(dirs),
                           exeName)

\* lookupInEnvPathUncached(exeName, env): [kind, path, cache] with kind
\*   "ok"     a path is returned ("" when env holds no search path),
\*   "fatal"  fatalf: not found and the message can be formatted,
\*   "panic"  not found and parts[1] of a one-directory path is out of range.
RECURSIVE lookupInEnvPathUncached(_, _, _, _)
lookupInEnvPathUncached(cache, fsys, exeName, e) ==
    IF e = <<>> THEN [kind |-> "ok", path |-> EmptyPath, cache |-> cache]
    ELSE IF ToLower(Head(e).Name) # "path"
         THEN lookupInEnvPathUncached(cache, fsys, exeName, Tail(e))
    ELSE LET r == scanDirs(cache, fsys, Head(e).Val, exeName)
         IN  IF r.found THEN [kind |-> "ok", path |-> r.path, cache |-> r.cache]
             ELSE IF Len(Head(e).Val) >= 2
                  THEN [kind |-> "fatal", path |-> EmptyPath, cache |-> r.cache]
                  ELSE [kind |-> "panic", path |-> EmptyPath, cache |-> r.cache]

\* the key under which lookupInEnvPath caches a resolution
exeKey(exeName, e) == exeName

\* _, ok := cachedExePaths[exeName]
exeCached(paths, exeName, e) == exeKey(exeName, e) \in DOMAIN paths

\* cachedExePaths[exeName] = path
exeStore(paths, exeName, e, path) ==
    IF exeKey(exeName, e) \in DOMAIN paths
    THEN [paths EXCEPT ![exeKey(exeName, e)] = path]
    ELSE paths @@ (exeKey(exeName, e) :> path)

\* os.Exit status of a failed resolution
exitOf(kind) == IF kind = "fatal" THEN "exit1" ELSE "exit2"

\* --------------------------------------------------------- argument lists

\* An argument is a flag, a flag with a path glued to it ("/Fo" + dst), or a
\* bare path (flag "").
Arg(flag, path) == [flag |-> flag, path |-> path]
Flag(f) == Arg(f, EmptyPath)

\* rcArgs of build()
rcArgs == <<Flag("/r"), Flag("/D"), Flag("DEBUG"), Flag("/D"), Flag("_DEBUG")>>

\* the first entries of startArgs of build()
startArgs == <<Flag("/nologo"), Flag("/c"), Flag("/D"), Flag("WIN32")>>

\* the flags build() hands to rc() and, through clDir(), to cl()
flagsOf(j) == IF j = 0 THEN rcArgs ELSE startArgs

\* strConcat that puts the second array first
strConcatReversed(arr1, arr2) == arr2 \o arr1

\* strConcat(arr1, arr2)
strConcat(arr1, arr2) == arr1 \o arr2

\* (a *Args) Append(toAppend)
Append_(a, toAppend) == strConcat(a, toAppend)

\* extraArgs of rc() and cl()
extraArgs(src, dst) == <<Arg("/Fo", dst), Arg("", src)>>

\* rc() and cl(): args = args.Append(extraArgs), as handed to runExe
exeArgs(flags, src, dst) == Append_(flags, extraArgs(src, dst))

\* ---------------------------------------------------------- task scheduler

Running == proc = "running"

\* as semCanEnter, the capacity of the channel being ignored
semCanEnterUnbounded(len, cap) == TRUE

\* as semCanEnter, the last slot never being handed out
semCanEnterOffByOne(len, cap) == len + 1 < cap

\* semEnter(): sem <- true can proceed
semCanEnter(len, cap) == len < cap

\* as wgAdd, the task not being counted
wgAddForgotten(w) == w

\* wg.Add(1) in runExe
wgAdd(w) == w + 1

\* wg.Wait() can return
wgCanPass(w) == w = 0

\* as afterRun, err being ignored
afterRunErrIgnored(status) == "semLeave"

\* runExeHelper after cmd.CombinedOutput(): err != nil leads to fatalf
afterRun(status) == IF status = "zero" THEN "semLeave" ELSE "failed"

\* createDirCached(dir): os.MkdirAll is reached
mkdirReached(dirs, dir) == dir \notin DOMAIN dirs

\* os.MkdirAll(dir) succeeded: the directory exists afterwards
mkdirAll(fsys, dir, t) ==
    IF dir \in DOMAIN fsys THEN fsys ELSE fsys @@ (dir :> FileInfo(FALSE, t))

\* one more call of os.MkdirAll(dir)
countCall(calls, dir) ==
    IF dir \in DOMAIN calls THEN [calls EXCEPT ![dir] = @ + 1]
    ELSE calls @@ (dir :> 1)

\* cl() that submits whatever isOutdated returned
clSubmitsAlways(ret) == TRUE

\* cl() goes on to submit the task after isOutdated returned ret
clSubmits(ret) == ret

\* clDir() that resolves the environment again before the next file
nextJobResolvesAgain(j) == IF j >= NumFiles THEN "wait" ELSE "vcvarsall"

\* the position of main after job j has been dealt with
nextJob(j) == IF j >= NumFiles THEN "wait" ELSE "isOutdated"

\* ---- the environment resolver

Platform32Bit == 1
Platform64Bit == 2
Platforms == {Platform32Bit, Platform64Bit}

\* the script getEnvForVcTools runs for a platform
vcvarsall(platform) ==
    IF platform = Platform32Bit THEN "vcvarsall.bat x86"
                                ELSE "vcvarsall.bat x86_amd64"

Scripts == {"vsvars32.bat"} \cup {vcvarsall(p) : p \in Platforms}

\* what getEnvAfterScript can meet: the command fails, its output has no line
\* break, a line of it holds no '=', or the output is parsed
ScriptResults == {"failed", "nosplit", "noequals", "ok"}

\* how the process ends when getEnvAfterScript does not return: os.Exit(1),
\* or the index out of range of envToMap
scriptExit(r) == IF r = "noequals" THEN "exit2" ELSE "exit1"

\* the environments vcvarsall.bat can leave behind for a platform
PlatformEnvs(platform) ==
    IF platform = Platform32Bit THEN {Env32, EnvOneDir, EnvNoPath}
                                ELSE {Env64, EnvOneDir, EnvNoPath}

\* getEnv up to the call of getVcInstallDir: VS140COMNTOOLS or VS120COMNTOOLS
\* is set, or the process ends
getEnvToolsVar ==
    /\ Running /\ pcMain = "getEnv"
    /\ \E vsVarSet \in BOOLEAN :
         IF vsVarSet
         THEN /\ pcMain' = IF cachedVcInstallDir = "" THEN "vsvars"
                                                      ELSE "vcvarsall"
              /\ proc' = proc
         ELSE /\ proc' = "exit1"
              /\ pcMain' = pcMain
    /\ UNCHANGED <<n, sem, wg, job, pc, exePath, procStatus, env,
                   cachedExePaths, createdDirs, fileInfoCache, fs, now, scans,
                   last, auxVars>>

\* getVcInstallDir with cachedVcInstallDir empty: vsvars32.bat is run
getVcInstallDir ==
    /\ Running /\ pcMain = "vsvars"
    /\ scriptRuns' = [scriptRuns EXCEPT !["vsvars32.bat"] = @ + 1]
    /\ \E r \in ScriptResults, hasVcInstallDir \in BOOLEAN :
         IF r = "ok" /\ hasVcInstallDir
         THEN /\ cachedVcInstallDir' = "vc"
              /\ pcMain' = "vcvarsall"
              /\ proc' = proc
         ELSE /\ proc' = IF r = "ok" THEN "exit1" ELSE scriptExit(r)
              /\ UNCHANGED <<cachedVcInstallDir, pcMain>>
    /\ UNCHANGED <<n, sem, wg, job, pc, exePath, procStatus, env,
                   cachedExePaths, createdDirs, fileInfoCache, fs, now, scans,
                   last, mkdirCalls, outdatedRet, argv>>

\* getEnv32 / getEnv64: getEnvForVcTools runs vcvarsall.bat for the platform;
\* getEnv returns to position next
getEnvForVcTools(platform, next) ==
    /\ Running /\ pcMain = "vcvarsall"
    /\ scriptRuns' = [scriptRuns EXCEPT ![vcvarsall(platform)] = @ + 1]
    /\ \E r \in ScriptResults :
         IF r = "ok"
         THEN /\ env' \in PlatformEnvs(platform)
              /\ pcMain' = next
              /\ proc' = proc
         ELSE /\ proc' = scriptExit(r)
              /\ UNCHANGED <<env, pcMain>>
    /\ UNCHANGED <<n, sem, wg, job, pc, exePath, procStatus,
                   cachedExePaths, createdDirs, fileInfoCache, fs, now, scans,
                   last, cachedVcInstallDir, mkdirCalls, outdatedRet, argv>>

\* build(): env := getEnv(platform), in its three steps
MainGetEnv == getEnvToolsVar
MainVsvars == getVcInstallDir
MainVcvarsall == getEnvForVcTools(Platform32Bit, "createOutDir")

\* createDirCached(dir) called by main, main going on at position next
createDirCached(dir, next) ==
    /\ \/ /\ ~mkdirReached(createdDirs, dir)
          /\ pcMain' = next
          /\ UNCHANGED <<fs, proc, mkdirCalls>>
       \/ /\ mkdirReached(createdDirs, dir)
          /\ mkdirCalls' = countCall(mkdirCalls, dir)
          /\ \/ /\ fs' = mkdirAll(fs, dir, now)
                /\ pcMain' = next
                /\ proc' = proc
             \/ /\ proc' = "exit1"
                /\ UNCHANGED <<fs, pcMain>>
    /\ UNCHANGED <<n, sem, wg, job, pc, exePath, procStatus, env,
                   cachedExePaths, createdDirs, fileInfoCache, now, scans, last,
                   cachedVcInstallDir, scriptRuns, outdatedRet, argv>>

\* build(): createDirCached(outDir)
MainCreateOutDir ==
    /\ Running /\ pcMain = "createOutDir"
    /\ createDirCached(MkPath(<<getOutDir>>, "", ""), "createDir")

\* cl(): if !isOutdated(src, dst, nil) { return }
MainIsOutdated ==
    /\ Running /\ pcMain = "isOutdated"
    /\ LET j == job + 1
           r == isOutdated(fileInfoCache, fs, srcOf(j), dstOf(j), <<>>, now)
       IN  /\ fileInfoCache' = r.cache
           /\ job' = j
           /\ outdatedRet' = [outdatedRet EXCEPT ![j] =
                                IF r.ret THEN "true" ELSE "false"]
           /\ pcMain' = IF clSubmits(r.ret) THEN "createDir" ELSE nextJob(j)
    /\ UNCHANGED <<n, sem, wg, pc, exePath, procStatus, proc, env,
                   cachedExePaths, createdDirs, fs, now, scans, last,
                   cachedVcInstallDir, scriptRuns, mkdirCalls, argv>>

\* rc() and cl(): createDirForFileCached(dst)
MainCreateDir ==
    /\ Running /\ pcMain = "createDir"
    /\ createDirCached(dirOf(dstOf(job)), "semEnter")

\* runExe: semEnter()
MainSemEnter ==
    /\ Running /\ pcMain = "semEnter"
    /\ semCanEnter(sem, n)
    /\ sem' = sem + 1
    /\ pcMain' = "wgAdd"
    /\ UNCHANGED <<auxVars, n, wg, job, pc, exePath, procStatus, proc, env,
                   cachedExePaths, createdDirs, fileInfoCache, fs, now, scans,
                   last>>

\* runExe: wg.Add(1)
MainWgAdd ==
    /\ Running /\ pcMain = "wgAdd"
    /\ wg' = wgAdd(wg)
    /\ pcMain' = "go"
    /\ UNCHANGED <<auxVars, n, sem, job, pc, exePath, procStatus, proc, env,
                   cachedExePaths, createdDirs, fileInfoCache, fs, now, scans,
                   last>>

\* runExe: go func() {...}() and the return to the caller
MainGo ==
    /\ Running /\ pcMain = "go"
    /\ pc' = [pc EXCEPT ![job] = "lookup"]
    /\ argv' = [argv EXCEPT ![job] =
                  exeArgs(flagsOf(job), srcOf(job), dstOf(job))]
    /\ pcMain' = nextJob(job)
    /\ UNCHANGED <<n, sem, wg, job, exePath, procStatus, proc, env,
                   cachedExePaths, createdDirs, fileInfoCache, fs, now, scans,
                   last, cachedVcInstallDir, scriptRuns, mkdirCalls,
                   outdatedRet>>

\* main: wg.Wait() returns
MainWait ==
    /\ Running /\ pcMain = "wait"
    /\ wgCanPass(wg)
    /\ pcMain' = "done"
    /\ UNCHANGED <<auxVars, n, sem, wg, job, pc, exePath, procStatus, proc, env,
                   cachedExePaths, createdDirs, fileInfoCache, fs, now, scans,
                   last>>

\* main returns: the process ends with status 0
MainReturn ==
    /\ Running /\ pcMain = "done"
    /\ proc' = "exit0"
    /\ UNCHANGED <<auxVars, n, sem, wg, pcMain, job, pc, exePath, procStatus, env,
                   cachedExePaths, createdDirs, fileInfoCache, fs, now, scans,
                   last>>

\* exec.Command(path, ...).CombinedOutput() can start a process
canStart(path) == path # EmptyPath

\* runExeHelper: lookupInEnvPath up to the assignment to cachedExePaths: the
\* test of the map and, on a miss, the scan of the search path. On a hit the
\* path is returned and the process is started.
TaskLookup(t) ==
    /\ Running /\ pc[t] = "lookup"
    /\ IF exeCached(cachedExePaths, exeOf(t), env)
       THEN LET path == cachedExePaths[exeKey(exeOf(t), env)]
            IN  /\ exePath' = [exePath EXCEPT ![t] = path]
                /\ pc' = [pc EXCEPT ![t] =
                            IF canStart(path) THEN "running" ELSE "failed"]
                /\ UNCHANGED <<fileInfoCache, scans, proc>>
       ELSE LET r == lookupInEnvPathUncached(fileInfoCache, fs, exeOf(t), env)
            IN  /\ fileInfoCache' = r.cache
                /\ scans' = [scans EXCEPT ![exeOf(t)] = @ + 1]
                /\ IF r.kind = "ok"
                   THEN /\ exePath' = [exePath EXCEPT ![t] = r.path]
                        /\ pc' = [pc EXCEPT ![t] = "store"]
                        /\ proc' = proc
                   ELSE /\ proc' = exitOf(r.kind)
                        /\ UNCHANGED <<exePath, pc>>
    /\ UNCHANGED <<auxVars, n, sem, wg, pcMain, job, procStatus, env, cachedExePaths,
                   createdDirs, fs, now, last>>

\* lookupInEnvPath: cachedExePaths[exeName] = ...; return cachedExePaths[exeName]
\* and runExeHelper starting the process
TaskStore(t) ==
    /\ Running /\ pc[t] = "store"
    /\ cachedExePaths' = exeStore(cachedExePaths, exeOf(t), env, exePath[t])
    /\ LET path == cachedExePaths'[exeKey(exeOf(t), env)]
       IN  /\ exePath' = [exePath EXCEPT ![t] = path]
           /\ pc' = [pc EXCEPT ![t] =
                       IF canStart(path) THEN "running" ELSE "failed"]
    /\ UNCHANGED <<auxVars, n, sem, wg, pcMain, job, procStatus, proc, env,
                   createdDirs, fileInfoCache, fs, now, scans, last>>

\* the external process ends: with status zero it has written its output
TaskExit(t) ==
    /\ Running /\ pc[t] = "running"
    /\ \E status \in {"zero", "nonzero"} :
         /\ procStatus' = [procStatus EXCEPT ![t] = status]
         /\ pc' = [pc EXCEPT ![t] = afterRun(status)]
         /\ fs' = IF status = "zero"
                  THEN [p \in DOMAIN fs \cup {dstOf(t)} |->
                          IF p = dstOf(t) THEN FileInfo(TRUE, now) ELSE fs[p]]
                  ELSE fs
    /\ UNCHANGED <<auxVars, n, sem, wg, pcMain, job, exePath, proc, env,
                   cachedExePaths, createdDirs, fileInfoCache, now, scans, last>>

\* runExeHelper: fatalf(...) after err != nil: os.Exit(1)
TaskFatalf(t) ==
    /\ Running /\ pc[t] = "failed"
    /\ proc' = "exit1"
    /\ UNCHANGED <<auxVars, n, sem, wg, pcMain, job, pc, exePath, procStatus, env,
                   cachedExePaths, createdDirs, fileInfoCache, fs, now, scans,
                   last>>

\* semLeave(): <-sem
TaskSemLeave(t) ==
    /\ Running /\ pc[t] = "semLeave"
    /\ sem > 0
    /\ sem' = sem - 1
    /\ pc' = [pc EXCEPT ![t] = "wgDone"]
    /\ UNCHANGED <<auxVars, n, wg, pcMain, job, exePath, procStatus, proc, env,
                   cachedExePaths, createdDirs, fileInfoCache, fs, now, scans,
                   last>>

\* wg.Done(): a negative counter panics
TaskWgDone(t) ==
    /\ Running /\ pc[t] = "wgDone"
    /\ IF wg > 0
       THEN /\ wg' = wg - 1
            /\ pc' = [pc EXCEPT ![t] = "done"]
            /\ proc' = proc
       ELSE /\ proc' = "exit2"
            /\ UNCHANGED <<wg, pc>>
    /\ UNCHANGED <<auxVars, n, sem, pcMain, job, exePath, procStatus, env,
                   cachedExePaths, createdDirs, fileInfoCache, fs, now, scans,
                   last>>

\* ---- unsynchronised accesses to the maps

\* goroutine t is about to read / write cachedExePaths
readsExePaths(t) == pc[t] = "lookup"
writesExePaths(t) == pc[t] = "store"

\* goroutine t is about to read / write fileInfoCache (through fileExists)
readsFileInfo(t) ==
    pc[t] = "lookup" /\ ~exeCached(cachedExePaths, exeOf(t), env)
writesFileInfo(t) ==
    /\ readsFileInfo(t)
    /\ lookupInEnvPathUncached(fileInfoCache, fs, exeOf(t), env).cache
         # fileInfoCache

\* main is about to read / write fileInfoCache (through isOutdated)
mainReadsFileInfo == pcMain = "isOutdated"
mainWritesFileInfo ==
    /\ mainReadsFileInfo
    /\ isOutdated(fileInfoCache, fs, srcOf(job + 1), dstOf(job + 1), <<>>,
                  now).cache # fileInfoCache

\* two goroutines are about to access one map, one of them writing, with
\* nothing ordering the two accesses
DataRace ==
    \/ \E t, u \in Jobs :
         /\ t # u
         /\ \/ writesExePaths(t) /\ (readsExePaths(u) \/ writesExePaths(u))
            \/ writesFileInfo(t) /\ readsFileInfo(u)
    \/ \E t \in Jobs :
         \/ writesFileInfo(t) /\ mainReadsFileInfo
         \/ readsFileInfo(t) /\ mainWritesFileInfo

\* the Go runtime detects the unsynchronised map access and throws
\* ("fatal error: concurrent map writes"): the process ends with status 2
RuntimeThrow ==
    /\ Running /\ DataRace
    /\ proc' = "exit2"
    /\ UNCHANGED <<auxVars, n, sem, wg, pcMain, job, pc, exePath, procStatus, env,
                   cachedExePaths, createdDirs, fileInfoCache, fs, now, scans,
                   last>>

\* ---- the file system and the processor count main() starts with

\* the executables installed: none, all in one directory of the path, or the
\* resource compiler alone
ExeLayouts ==
    { [p \in S |-> FileInfo(TRUE, 0)] :
        S \in { {},
                {exeIn("vc32", "cl.exe"), exeIn("vc32", "rc.exe")},
                {exeIn("sdk", "cl.exe"), exeIn("sdk", "rc.exe")},
                {exeIn("sdk", "rc.exe")} } }

\* the sources exist; each object file is missing, older or newer than its
\* source, the resource file missing or newer
DstStates == {"missing", "stale", "fresh"}

SrcTree(d) ==
    LET srcs == {srcOf(j) : j \in Jobs}
        dsts == {dstOf(j) : j \in {k \in Jobs : d[k] # "missing"}}
    IN  [p \in srcs \cup dsts |->
           IF p \in srcs THEN FileInfo(TRUE, 1)
           ELSE LET j == CHOOSE k \in Jobs : dstOf(k) = p
                IN  FileInfo(TRUE, IF d[j] = "stale" THEN 0 ELSE MaxTime)]

Init ==
    /\ n \in 1..MaxCPU
    /\ sem = 0
    /\ wg = 0
    /\ pcMain = "getEnv"
    /\ job = 0
    /\ pc = [t \in Jobs |-> "none"]
    /\ exePath = [t \in Jobs |-> EmptyPath]
    /\ procStatus = [t \in Jobs |-> "none"]
    /\ proc = "running"
    /\ env = <<>>
    /\ cachedExePaths = <<>>
    /\ createdDirs = <<>>
    /\ fileInfoCache = <<>>
    /\ \E x \in ExeLayouts, d \in [Jobs -> DstStates] :
         /\ d[0] # "stale"
         /\ fs = x @@ SrcTree(d)
    /\ now = MaxTime + 1
    /\ scans = [e \in ExeNames |-> 0]
    /\ last = <<>>
    /\ cachedVcInstallDir = ""
    /\ scriptRuns = [s \in Scripts |-> 0]
    /\ mkdirCalls = <<>>
    /\ outdatedRet = [t \in Jobs |-> "none"]
    /\ argv = [t \in Jobs |-> <<>>]

Next ==
    \/ MainGetEnv
    \/ MainVsvars
    \/ MainVcvarsall
    \/ MainCreateOutDir
    \/ MainIsOutdated
    \/ MainCreateDir
    \/ MainSemEnter
    \/ MainWgAdd
    \/ MainGo
    \/ MainWait
    \/ MainReturn
    \/ \E t \in Jobs : TaskLookup(t)
    \/ \E t \in Jobs : TaskStore(t)
    \/ \E t \in Jobs : TaskExit(t)
    \/ \E t \in Jobs : TaskFatalf(t)
    \/ \E t \in Jobs : TaskSemLeave(t)
    \/ \E t \in Jobs : TaskWgDone(t)
    \/ RuntimeThrow

Spec == Init /\ [][Next]_vars

\* ------------------------------------------------- isOutdated, called alone

\* the headers a source may depend on
AllHdrs == <<"BaseUtil", "WinUtil", "StrUtil", "FileUtil">>
hdrOf(k) == pj("src", MkPath(<<>>, AllHdrs[k], ".h"))

\* dependency lists: the first k headers
DepLists == {[i \in 1..k |-> hdrOf(i)] : k \in 0..MaxDeps}

Times == 0..MaxTime

\* every file of the oracle is missing or a regular file of some age; the
\* destination may also be a directory
OracleTrees ==
    LET paths == {srcOf(1), dstOf(1)} \cup {hdrOf(k) : k \in 1..MaxDeps}
        infos(p) == {FileInfo(TRUE, t) : t \in Times}
                      \cup (IF p = dstOf(1) THEN {FileInfo(FALSE, 0)} ELSE {})
    IN  UNION {{f \in [S -> UNION {infos(p) : p \in S}] :
                   \A p \in S : f[p] \in infos(p)} : S \in SUBSET paths}

Idle ==
    /\ n = 1 /\ sem = 0 /\ wg = 0 /\ pcMain = "call" /\ job = 0
    /\ pc = [t \in Jobs |-> "none"]
    /\ exePath = [t \in Jobs |-> EmptyPath]
    /\ procStatus = [t \in Jobs |-> "none"]
    /\ proc = "running"
    /\ cachedExePaths = <<>> /\ createdDirs = <<>> /\ fileInfoCache = <<>>
    /\ scans = [e \in ExeNames |-> 0]
    /\ last = [op |-> "none"]
    /\ cachedVcInstallDir = ""
    /\ scriptRuns = [s \in Scripts |-> 0]
    /\ mkdirCalls = <<>>
    /\ outdatedRet = [t \in Jobs |-> "none"]
    /\ argv = [t \in Jobs |-> <<>>]

InitOracle ==
    /\ Idle
    /\ env = <<>>
    /\ fs \in OracleTrees
    /\ now = MaxTime + 1

\* how fileExists(path) gets its answer: from fileInfoCache, or from an
\* os.Stat that finds the path or fails
statSeen(cache, fsys, path) ==
    IF path \in DOMAIN cache THEN "cached"
    ELSE IF statOk(fsys, path) THEN "found" ELSE "missing"

\* path is a regular file on disk
isRegular(fsys, path) == statOk(fsys, path) /\ fsys[path].regular

\* dst is a regular file on disk, modified later than src
builtAfter(fsys, src, dst) ==
    /\ isRegular(fsys, dst) /\ statOk(fsys, src)
    /\ fsys[dst].mtime > fsys[src].mtime

\* how the call before this one, if it was isOutdated, had seen dst
seenBefore(l) == IF l.op = "isOutdated" THEN l.seen ELSE "none"

\* isOutdated(src, dst, deps); last records the call, what the disk held when
\* it was made, and how dst was seen by it and by the call before it
CallIsOutdated(deps) ==
    /\ Running /\ pcMain = "call"
    /\ LET r == isOutdated(fileInfoCache, fs, srcOf(1), dstOf(1), deps, now)
       IN  /\ fileInfoCache' = r.cache
           /\ last' = [op |-> "isOutdated", src |-> srcOf(1), dst |-> dstOf(1),
                       deps |-> deps, ret |-> r.ret,
                       seen |-> statSeen(fileInfoCache, fs, dstOf(1)),
                       prevSeen |-> seenBefore(last),
                       dstThere |-> isRegular(fs, dstOf(1)),
                       newer |-> builtAfter(fs, srcOf(1), dstOf(1))]
    /\ UNCHANGED <<auxVars, schedVars, cachedExePaths, createdDirs, fs, now, scans>>

NextOracle == \E deps \in DepLists : CallIsOutdated(deps)

SpecOracle == InitOracle /\ [][NextOracle]_vars

\* ------------------------------------- the stat cache on a changing disk

CachePaths == {srcOf(1), dstOf(1)}

\* at the start each file is missing or as old as can be; the destination may
\* be a directory
CacheTrees ==
    LET infos(p) == {FileInfo(TRUE, 0)}
                      \cup (IF p = dstOf(1) THEN {FileInfo(FALSE, 0)} ELSE {})
    IN  UNION {{f \in [S -> UNION {infos(p) : p \in S}] :
                   \A p \in S : f[p] \in infos(p)} : S \in SUBSET CachePaths}

InitCache ==
    /\ Idle
    /\ env = <<>>
    /\ fs \in CacheTrees
    /\ now = 1

\* fileExists(path)
CallFileExists(path) ==
    /\ Running /\ pcMain = "call"
    /\ fileInfoCache' = statCached(fileInfoCache, fs, path)
    /\ last' = [op |-> "fileExists", path |-> path,
                ret |-> FileInfo(fileExists(fileInfoCache, fs, path), 0),
                seen |-> statSeen(fileInfoCache, fs, path),
                stale |-> /\ path \in DOMAIN fileInfoCache
                          /\ fileInfoCache[path].regular # isRegular(fs, path)]
    /\ UNCHANGED <<auxVars, schedVars, cachedExePaths, createdDirs, fs, now,
                   scans>>

\* getModTime(path, time.Now())
CallGetModTime(path) ==
    /\ Running /\ pcMain = "call"
    /\ fileInfoCache' = statCached(fileInfoCache, fs, path)
    /\ last' = [op |-> "getModTime", path |-> path,
                ret |-> FileInfo(FALSE, getModTime(fileInfoCache, fs, path, now)),
                seen |-> statSeen(fileInfoCache, fs, path),
                stale |-> /\ path \in DOMAIN fileInfoCache
                          /\ \/ ~statOk(fs, path)
                             \/ fs[path].mtime # fileInfoCache[path].mtime]
    /\ UNCHANGED <<auxVars, schedVars, cachedExePaths, createdDirs, fs, now,
                   scans>>

\* outside the program: a tool writes path, the clock moving on
WriteFile(path) ==
    /\ now <= MaxTime
    /\ fs' = [q \in DOMAIN fs \cup {path} |->
                IF q = path THEN FileInfo(TRUE, now) ELSE fs[q]]
    /\ now' = now + 1
    /\ UNCHANGED <<auxVars, schedVars, cachedExePaths, createdDirs,
                   fileInfoCache, scans, last>>

\* outside the program: path is deleted
RemoveFile(path) ==
    /\ statOk(fs, path)
    /\ fs' = [q \in DOMAIN fs \ {path} |-> fs[q]]
    /\ UNCHANGED <<auxVars, schedVars, cachedExePaths, createdDirs,
                   fileInfoCache, now, scans, last>>

NextCache ==
    \/ CallIsOutdated(<<>>)
    \/ \E path \in CachePaths : CallFileExists(path)
    \/ \E path \in CachePaths : CallGetModTime(path)
    \/ \E path \in CachePaths : WriteFile(path)
    \/ \E path \in CachePaths : RemoveFile(path)

SpecCache == InitCache /\ [][NextCache]_vars

\* --------------------------------------------------- envToMap, called alone

\* A line is the sequence of its pieces between '=' signs: the empty line is
\* <<"">>, a line without '=' has one piece.
LineSet == { <<"">>, <<"junk">>, <<"Path", "x">>, <<"PATH", "y">>,
             <<"a", "x", "y">> }

LineLists == UNION {[1..k -> LineSet] : k \in 0..MaxLines}

\* strings.ToUpper on the names of the model
ToUpper(s) ==
    CASE s = "Path" -> "PATH"
      [] s = "a" -> "A"
      [] OTHER -> s

\* strings.SplitN(v, "=", 2): the text before the first '=' and, if there is
\* one, all the text after it
SplitN2(v) == IF Len(v) = 1 THEN << <<v[1]>> >> ELSE << <<v[1]>>, Tail(v) >>

\* res[key] = val
mapStore(res, key, val) ==
    IF key \in DOMAIN res THEN [res EXCEPT ![key] = val]
    ELSE res @@ (key :> val)

\* the loop of envToMap; kind is "ok", or "panic" when parts[1] is out of range
RECURSIVE envToMapLoop(_, _)
envToMapLoop(res, e) ==
    IF e = <<>> THEN [kind |-> "ok", res |-> res]
    ELSE LET v == Head(e)
             parts == SplitN2(v)
         IN  IF v = <<"">> THEN envToMapLoop(res, Tail(e))
             ELSE IF Len(parts) < 2 THEN [kind |-> "panic", res |-> res]
             ELSE envToMapLoop(mapStore(res, ToUpper(parts[1][1]),
                                        EnvVar(parts[1][1], parts[2])),
                               Tail(e))

\* envToMap(env); Val of an entry holds the pieces of the text after the first
\* '=' (between any further '=' signs)
envToMap(e) == envToMapLoop(<<>>, e)

InitEnvMap ==
    /\ Idle
    /\ env = <<>>
    /\ fs = <<>>
    /\ now = 0

\* envToMap(lines) is called; a panic ends the process with status 2
CallEnvToMap(lines) ==
    /\ Running /\ pcMain = "call" /\ last.op = "none"
    /\ LET r == envToMap(lines)
       IN  /\ last' = [op |-> "envToMap", env |-> lines, kind |-> r.kind,
                       res |-> r.res]
           /\ proc' = IF r.kind = "panic" THEN "exit2" ELSE proc
    /\ UNCHANGED <<auxVars, n, sem, wg, pcMain, job, pc, exePath, procStatus,
                   env, cachedExePaths, createdDirs, fileInfoCache, fs, now,
                   scans>>

NextEnvMap == \E lines \in LineLists : CallEnvToMap(lines)

SpecEnvMap == InitEnvMap /\ [][NextEnvMap]_vars

\* ----------------------------------------------------- getEnv, called alone

InitEnv ==
    /\ Idle
    /\ env = <<>>
    /\ fs = <<>>
    /\ now = 0

\* getEnv(platform) is called
CallGetEnv(platform) ==
    /\ Running /\ pcMain = "call"
    /\ scriptRuns[vcvarsall(platform)] < MaxRuns
    /\ pcMain' = "getEnv"
    /\ last' = [op |-> "getEnv", platform |-> platform]
    /\ UNCHANGED <<auxVars, n, sem, wg, job, pc, exePath, procStatus, proc, env,
                   cachedExePaths, createdDirs, fileInfoCache, fs, now, scans>>

NextEnv ==
    \/ \E platform \in Platforms : CallGetEnv(platform)
    \/ getEnvToolsVar
    \/ getVcInstallDir
    \/ getEnvForVcTools(last.platform, "call")

SpecEnv == InitEnv /\ [][NextEnv]_vars

\* ------------------------------------------------- rc and cl, called alone

\* the flags a caller may hand over
FlagSet == {Flag("/D"), Flag("DEBUG"), Flag("/nologo")}
FlagLists ==
    UNION {[1..k -> FlagSet] : k \in 0..MaxFlags} \cup {rcArgs, startArgs}

InitArgs ==
    /\ Idle
    /\ env = <<>>
    /\ fs = <<>>
    /\ now = 0

\* rc(src, dst, flags) for job 0, cl(src, dst, flags) for the others, as far
\* as the argument list handed to runExe
CallExe(j, flags) ==
    /\ Running /\ pcMain = "call" /\ last.op = "none"
    /\ argv' = [argv EXCEPT ![j] = exeArgs(flags, srcOf(j), dstOf(j))]
    /\ last' = [op |-> "runExe", exeName |-> exeOf(j), job |-> j,
                flags |-> flags]
    /\ UNCHANGED <<schedVars, cachedExePaths, createdDirs, fileInfoCache, fs,
                   now, scans, cachedVcInstallDir, scriptRuns, mkdirCalls,
                   outdatedRet>>

NextArgs == \E j \in Jobs, flags \in FlagLists : CallExe(j, flags)

SpecArgs == InitArgs /\ [][NextArgs]_vars

\* -------------------------------------------- lookupInEnvPath, called alone

\* which executables are installed where
LocatorTrees ==
    LET paths == {exeIn(d, e) : d \in ExeDirs, e \in ExeNames}
    IN  {[p \in S |-> FileInfo(TRUE, 0)] : S \in SUBSET paths}

InitLocator ==
    /\ Idle
    /\ env = <<>>
    /\ fs \in LocatorTrees
    /\ now = MaxTime + 1

\* lookupInEnvPath(exeName, env)
CallLookupInEnvPath(exeName, e) ==
    /\ Running
    /\ IF exeCached(cachedExePaths, exeName, e)
       THEN /\ last' = [op |-> "lookupInEnvPath", exeName |-> exeName,
                        env |-> e, ret |-> cachedExePaths[exeKey(exeName, e)]]
            /\ UNCHANGED <<cachedExePaths, fileInfoCache, scans, proc>>
       ELSE LET r == lookupInEnvPathUncached(fileInfoCache, fs, exeName, e)
            IN  /\ fileInfoCache' = r.cache
                /\ scans' = [scans EXCEPT ![exeName] = @ + 1]
                /\ IF r.kind = "ok"
                   THEN /\ cachedExePaths' =
                              exeStore(cachedExePaths, exeName, e, r.path)
                        /\ last' = [op |-> "lookupInEnvPath",
                                    exeName |-> exeName, env |-> e,
                                    ret |-> r.path]
                        /\ proc' = proc
                   ELSE /\ proc' = exitOf(r.kind)
                        /\ last' = [op |-> "exit", exeName |-> exeName,
                                    env |-> e, ret |-> EmptyPath]
                        /\ UNCHANGED cachedExePaths
    /\ UNCHANGED <<auxVars, n, sem, wg, pcMain, job, pc, exePath, procStatus, env,
                   createdDirs, fs, now>>

NextLocator == \E exeName \in ExeNames, e \in Envs : CallLookupInEnvPath(exeName, e)

SpecLocator == InitLocator /\ [][NextLocator]_vars

\* ------------------------------------------------------------------ claims

\* the goroutines whose external process has started and not yet finished
Executing == {t \in Jobs : pc[t] = "running"}

\* the goroutines started by runExe that have not yet left the semaphore
InFlight == {t \in Jobs : pc[t] \in {"lookup", "store", "running", "failed",
                                    "semLeave"}}

Submitted == {t \in Jobs : pc[t] # "none"}
Completed == {t \in Jobs : pc[t] = "done"}

\* C1: in every reachable state the number of external processes executing
\* simultaneously is at most n, the capacity of sem.
C1_BoundedConcurrency == Cardinality(Executing) <= n

\* n processes execute at once while main waits in semEnter with a further task
C1_Witness ==
    /\ n >= 2 /\ Cardinality(Executing) = n
    /\ pcMain = "semEnter" /\ Running

\* C2: when wg.Wait has returned, every task submitted through runExe has
\* completed: as many completed as submitted, none pending or running.
C2_AwaitAll ==
    pcMain = "done" =>
        /\ Cardinality(Completed) = Cardinality(Submitted)
        /\ \A t \in Jobs : pc[t] \in {"none", "done"}
        /\ wg = 0

\* wg.Wait has returned after more tasks than the bound were submitted
C2_Witness ==
    /\ pcMain = "done"
    /\ Cardinality(Submitted) > n
    /\ Cardinality(Completed) = Cardinality(Submitted)

\* every executable can be found on the search path of env
Resolvable ==
    \A e \in ExeNames :
        LET r == lookupInEnvPathUncached(<<>>, fs, e, env)
        IN  r.kind = "ok" /\ r.path # EmptyPath

\* C3: if every external process ends with status zero (and nothing else is
\* reported fatal: the environment is set up, the executables are found, the
\* directories are created), the run never gets stuck short of its end: in
\* every state either main has returned or some goroutine can take a step.
C3_NoDeadlock ==
    ( /\ \A t \in Jobs : procStatus[t] \in {"none", "zero"}
      /\ proc # "exit1"
      /\ env # <<>> => Resolvable )
    => (proc = "exit0" \/ ENABLED Next)

\* C4: once a task's external process has exited non-zero, wg.Wait never
\* returns and the process never ends with status zero; the fatal exit is open
\* to the failing goroutine whatever the other tasks are doing, until the
\* process has ended with a non-zero status.
C4_FailureIsFatal ==
    \A t \in Jobs :
        procStatus[t] = "nonzero" =>
            /\ pcMain # "done"
            /\ proc # "exit0"
            /\ proc \in {"exit1", "exit2"} \/ ENABLED TaskFatalf(t)

\* the process has ended with status 1 after a task failed, while another
\* task's process was still running
C4_Witness ==
    /\ proc = "exit1"
    /\ \E t, u \in Jobs :
         /\ procStatus[t] = "nonzero" /\ pc[t] = "failed"
         /\ pc[u] = "running"

\* C5: semEnter blocks main exactly while the number of in-flight tasks equals
\* n, and once past it runExe goes on to its return without waiting for any
\* task.
C5_SubmitBlocksOnlyWhenFull ==
    Running =>
        /\ pcMain = "semEnter" =>
              /\ Cardinality(InFlight) <= n
              /\ (ENABLED MainSemEnter) <=> (Cardinality(InFlight) < n)
        /\ pcMain = "wgAdd" => ENABLED MainWgAdd
        /\ pcMain = "go" => ENABLED MainGo

\* runExe has returned to cl() and main has moved on to the next file while
\* the process it submitted is still running
C5_Witness ==
    /\ Running /\ job >= 1 /\ pcMain = "isOutdated"
    /\ pc[job] = "running"

\* C6: no two accesses to fileInfoCache or cachedExePaths happen concurrently
\* (the caches are only used by the submitting thread).
C6_NoConcurrentCacheAccess == ~DataRace

\* the goroutines whose lookupInEnvPath has returned
Resolved == {t \in Jobs : pc[t] \in {"running", "semLeave", "wgDone", "done"}}

\* C7: whatever the interleaving, the search path is scanned at most once for
\* an executable name and every resolution of the name returns the same path.
C7_ResolutionIdempotent ==
    /\ \A e \in ExeNames : scans[e] <= 1
    /\ \A t, u \in Resolved : exeOf(t) = exeOf(u) => exePath[t] = exePath[u]

\* the directories of the search path of environment e
RECURSIVE searchPath(_)
searchPath(e) ==
    IF e = <<>> THEN <<>>
    ELSE IF ToLower(Head(e).Name) = "path" THEN Head(e).Val
    ELSE searchPath(Tail(e))

\* C8: a path that lookupInEnvPath(name, env) returns lies on the search path
\* of env, whatever environments the name was resolved under before.
C8_PathFromOwnEnvironment ==
    (last.op = "lookupInEnvPath" /\ last.ret # EmptyPath) =>
        \E i \in 1..Len(searchPath(last.env)) :
            last.ret = exeIn(searchPath(last.env)[i], last.exeName)

\* C9: isOutdated returns false when dst is a regular file newer than src and
\* newer than every dependency.
C9_FreshIsNotOutdated ==
    ( /\ last.op = "isOutdated"
      /\ last.dst \in DOMAIN fs /\ fs[last.dst].regular
      /\ last.src \in DOMAIN fs /\ fs[last.dst].mtime > fs[last.src].mtime
      /\ \A i \in 1..Len(last.deps) :
            /\ last.deps[i] \in DOMAIN fs
            /\ fs[last.dst].mtime > fs[last.deps[i]].mtime )
    => last.ret = FALSE

\* C10: with dst a regular file and src not newer than dst, isOutdated returns
\* true when some dependency is strictly newer than src.
C10_NewerDependencyOutdates ==
    ( /\ last.op = "isOutdated"
      /\ last.dst \in DOMAIN fs /\ fs[last.dst].regular
      /\ last.src \in DOMAIN fs /\ fs[last.src].mtime <= fs[last.dst].mtime
      /\ \E i \in 1..Len(last.deps) :
            /\ last.deps[i] \in DOMAIN fs
            /\ fs[last.deps[i]].mtime > fs[last.src].mtime )
    => last.ret = TRUE

\* C11: isOutdated returns true whenever the destination does not exist as a
\* regular file, whatever the timestamps and whatever fileInfoCache holds.
C11_MissingIsOutdated ==
    (last.op = "isOutdated" /\ ~last.dstThere) => last.ret

\* C12: when an isOutdated(src, dst, nil) found dst missing and returned
\* true, and dst was then written so that it is a regular file modified later
\* than src, the next isOutdated(src, dst, nil) returns false.
C12_MissingNotRemembered ==
    (/\ last.op = "isOutdated" /\ last.deps = <<>>
     /\ last.prevSeen = "missing" /\ last.newer) => ~last.ret

\* an isOutdated found dst missing, dst was built, the next call has returned
C12_Witness ==
    /\ last.op = "isOutdated" /\ last.deps = <<>>
    /\ last.prevSeen = "missing" /\ last.newer
    /\ ~last.ret
    /\ dstOf(1) \in DOMAIN fileInfoCache

\* C19: an entry of fileInfoCache is never removed or replaced, and fileExists
\* and getModTime of a path that has an entry return the regular-file flag
\* and the modification time of the entry, whatever the disk holds now.
C19_NeverInvalidated ==
    [][/\ \A p \in DOMAIN fileInfoCache :
             p \in DOMAIN fileInfoCache' /\ fileInfoCache'[p] = fileInfoCache[p]
       /\ \A p \in DOMAIN fileInfoCache :
             /\ (last' # last /\ last'.op = "fileExists" /\ last'.path = p)
                  => last'.ret.regular = fileInfoCache[p].regular
             /\ (last' # last /\ last'.op = "getModTime" /\ last'.path = p)
                  => last'.ret.mtime = fileInfoCache[p].mtime]_vars

\* a call has answered from an entry that the disk no longer agrees with
C19_Witness ==
    /\ last.op \in {"fileExists", "getModTime"}
    /\ last.seen = "cached" /\ last.stale
    /\ last.path \in DOMAIN fileInfoCache
    /\ \/ last.op = "fileExists"
          /\ last.ret.regular = fileInfoCache[last.path].regular
       \/ last.op = "getModTime"
          /\ last.ret.mtime = fileInfoCache[last.path].mtime

\* C13: a setup script is executed at most once for a platform, whatever the
\* number of getEnv calls for it.
C13_EnvComputedOnce ==
    \A platform \in Platforms : scriptRuns[vcvarsall(platform)] <= 1

\* exeName cannot be resolved under e: e has no path variable, or no
\* directory of its path holds exeName as a regular file
Unresolvable(exeName, e) ==
    \A i \in 1..Len(searchPath(e)) :
        ~isRegular(fs, exeIn(searchPath(e)[i], exeName))

\* C14: a lookupInEnvPath of a name that cannot be resolved under the
\* environment ends the process with a non-zero status, and nothing is
\* returned or cached for the name.
C14_UnresolvedIsFatal ==
    (last.op \in {"lookupInEnvPath", "exit"}
       /\ Unresolvable(last.exeName, last.env)) =>
        /\ last.op = "exit"
        /\ proc \in {"exit1", "exit2"}
        /\ ~exeCached(cachedExePaths, last.exeName, last.env)

\* C15: os.MkdirAll is called at most once for a directory.
C15_MkdirOncePerDir ==
    \A dir \in DOMAIN mkdirCalls : mkdirCalls[dir] <= 1

\* C16 as stated: the arguments handed to the process are "/Fo"+dst first,
\* then the caller's flags in their order, then src last.
C16_OutputPathFirst ==
    last.op = "runExe" =>
        argv[last.job] = <<Arg("/Fo", dstOf(last.job))>> \o last.flags
                           \o <<Arg("", srcOf(last.job))>>

\* C16 amended: the arguments handed to the process are the caller's flags in
\* their order, then "/Fo"+dst, then src last.
C16_FlagsThenOutputThenSource ==
    last.op = "runExe" =>
        argv[last.job] = last.flags \o <<Arg("/Fo", dstOf(last.job)),
                                         Arg("", srcOf(last.job))>>

\* cl() has been called with two flags or more
C16_Witness ==
    /\ last.op = "runExe" /\ last.exeName = "cl.exe"
    /\ Len(last.flags) >= 2 /\ last.flags[1] # last.flags[2]
    /\ Len(argv[last.job]) = Len(last.flags) + 2
    /\ argv[last.job][Len(last.flags) + 1].flag = "/Fo"

\* the positions of main inside getEnv, where configuration errors are found
ConfigSteps == {"getEnv", "vsvars", "vcvarsall"}

\* C17: while main is where a configuration error can end the process, no
\* task has been submitted: nothing is in the semaphore or the wait group and
\* no goroutine has been started.
C17_ConfigErrorBeforeTasks ==
    pcMain \in ConfigSteps => (Submitted = {} /\ sem = 0 /\ wg = 0)

\* a configuration error has ended the process
C17_Witness ==
    /\ proc = "exit1" /\ pcMain \in {"vsvars", "vcvarsall"}
    /\ scriptRuns["vsvars32.bat"] = 1
    /\ Submitted = {}

\* main has returned from rc() (j = 0) or from the cl() of file j
Returned(j) ==
    \/ job > j
    \/ job = j /\ pcMain \in {"isOutdated", "wait", "done"}

\* C18: cl() goes on to create the directory and submits a task exactly when
\* its isOutdated returned true; rc() never calls isOutdated and has always
\* submitted a task when it returns.
C18_FreshnessGatesCl ==
    /\ outdatedRet[0] = "none"
    /\ Returned(0) => 0 \in Submitted
    /\ \A j \in 1..NumFiles :
          /\ j \in Submitted => outdatedRet[j] = "true"
          /\ (job = j /\ pcMain \in {"createDir", "semEnter", "wgAdd", "go"})
                => outdatedRet[j] = "true"
          /\ (outdatedRet[j] = "true" /\ Returned(j)) => j \in Submitted

\* rc() has submitted although its destination is newer than its source, one
\* cl() has submitted and another has not
C18_Witness ==
    /\ pcMain = "done"
    /\ 0 \in Submitted /\ builtAfter(fs, srcOf(0), dstOf(0))
    /\ \E j, k \in 1..NumFiles :
          /\ outdatedRet[j] = "true" /\ j \in Submitted
          /\ outdatedRet[k] = "false" /\ k \notin Submitted

\* C20: envToMap returns for every list of lines, and the map it returns
\* holds, for each line with a '=' whose name no later line repeats,
\* upper-cased name -> (name, text after the first '='), and nothing else.
C20_EnvToMapNeverFails ==
    last.op = "envToMap" =>
        /\ last.kind = "ok" /\ proc = "running"
        /\ \A i \in 1..Len(last.env) :
              LET v == last.env[i]
              IN  (Len(v) >= 2 /\ \A k \in (i + 1)..Len(last.env) :
                                     ToUpper(last.env[k][1]) # ToUpper(v[1]))
                    => /\ ToUpper(v[1]) \in DOMAIN last.res
                       /\ last.res[ToUpper(v[1])] = EnvVar(v[1], Tail(v))
        /\ DOMAIN last.res =
              {ToUpper(last.env[i][1]) :
                 i \in {k \in 1..Len(last.env) : Len(last.env[k]) >= 2}}

====
